---- MODULE Spec2Model ----
(***************************************************************************)
(* Webhook verifier variants of veraduan/epicwebhook.                      *)
(*                                                                         *)
(*   hmac   src/src/index.ts  lines  86-181  (HMAC-enforcing fetch)        *)
(*   shape  src/src/index.ts  lines 232-309  (shape-checking fetch)        *)
(*   echo   src/unnamed/part_000             (header-echoing fetch)        *)
(*   final  src/unnamed/part_002             (final-version fetch)         *)
(*                                                                         *)
(* A JavaScript string is a sequence of one-character strings.  A JSON     *)
(* value is a record [t, s, n]: t its type, s its text when a string, n    *)
(* its number when a number.  A header is [present, v].  The X-Timestamp   *)
(* header is [present, text, ms]: text is "empty" for "", "garbage" for a  *)
(* text Date.parse maps to NaN, and "iso" for a date text denoting ms.     *)
(***************************************************************************)
EXTENDS Integers, Sequences, FiniteSets, TLC

VARIABLES pc, handler, request, env, now, response, tasks

vars == <<pc, handler, request, env, now, response, tasks>>

-----------------------------------------------------------------------------
(* JavaScript strings                                                      *)

IsSpace(c) == c = " "

RECURSIVE TrimStart(_)
TrimStart(s) ==
  IF s = <<>> THEN <<>>
  ELSE IF IsSpace(Head(s)) THEN TrimStart(Tail(s)) ELSE s

RECURSIVE TrimEnd(_)
TrimEnd(s) ==
  IF s = <<>> THEN <<>>
  ELSE IF IsSpace(s[Len(s)]) THEN TrimEnd(SubSeq(s, 1, Len(s) - 1)) ELSE s

\* String.prototype.trim
Trim(s) == TrimEnd(TrimStart(s))

\* String.prototype.indexOf for a single character, 0-based, -1 when absent
IndexOf(s, c) ==
  IF \E i \in 1..Len(s) : s[i] = c
  THEN (CHOOSE i \in 1..Len(s) : s[i] = c /\ \A j \in 1..(i - 1) : s[j] # c) - 1
  ELSE -1

\* String.prototype.split(",")
RECURSIVE Split(_)
Split(s) ==
  LET i == IndexOf(s, ",") IN
  IF i = -1 THEN <<s>>
  ELSE <<SubSeq(s, 1, i)>> \o Split(SubSeq(s, i + 2, Len(s)))

EVENT_PREFIX == <<"e", "v", "e", "n", "t", "-", "v", "1", "-">>
ACKNOWLEDGE == EVENT_PREFIX \o <<"a", "c", "k", "n", "o", "w", "l", "e", "d", "g", "e">>
PLAYER_ID_VERIFICATION ==
  EVENT_PREFIX \o <<"p", "l", "a", "y", "e", "r", "-", "i", "d", "-",
                    "v", "e", "r", "i", "f", "i", "c", "a", "t", "i", "o", "n">>
FULFILL == EVENT_PREFIX \o <<"f", "u", "l", "f", "i", "l", "l">>
CLAWBACK == EVENT_PREFIX \o <<"c", "l", "a", "w", "b", "a", "c", "k">>

-----------------------------------------------------------------------------
(* JSON values and request bodies                                          *)

Undefined == [t |-> "undef", s |-> <<>>, n |-> 0]
Null == [t |-> "null", s |-> <<>>, n |-> 0]
Str(s) == [t |-> "str", s |-> s, n |-> 0]
Num(n) == [t |-> "num", s |-> <<>>, n |-> n]

Fields == {"eventType", "eventId", "playerId", "offerId", "namespace", "quantity", "productId"}

\* a, the default of ?? dropped
NullishDropped(a, b) == a

\* a ?? b
Nullish(a, b) == IF a.t \in {"undef", "null"} THEN b ELSE a

\* ToBoolean(a)
Truthy(a) ==
  CASE a.t = "str" -> a.s # <<>>
    [] a.t = "num" -> a.n # 0
    [] OTHER -> FALSE

\* a || b
OrElse(a, b) == IF Truthy(a) THEN a ELSE b

Digits == <<"0", "1", "2", "3", "4", "5", "6", "7", "8", "9">>

\* String(a), a.toString() and `${a}` (numbers of one digit)
ToStr(a) ==
  CASE a.t = "str" -> a.s
    [] a.t = "num" -> <<Digits[a.n + 1]>>
    [] a.t = "null" -> <<"n", "u", "l", "l">>
    [] OTHER -> <<"u", "n", "d", "e", "f", "i", "n", "e", "d">>

NoFields == [k \in Fields |-> Undefined]

\* the empty object literal {}
EmptyObject == [k |-> "obj", f |-> NoFields]

\* payload[key], payload?.[key]: a property of an object, undefined on a
\* number, string or array (never called on null)
Prop(payload, key) == IF payload.k = "obj" THEN payload.f[key] ELSE Undefined

\* payload?.[key]
OptProp(payload, key) == IF payload.k = "null" THEN Undefined ELSE Prop(payload, key)

\* JSON.parse(text) throws on the empty text and on text that is not JSON
ParseThrows(raw) == raw.k \in {"empty", "garbage"}

-----------------------------------------------------------------------------
(* Headers                                                                 *)

Absent == [present |-> FALSE, v |-> <<>>]
Hdr(v) == [present |-> TRUE, v |-> v]

\* headers.get(name) || ""
GetOrEmpty(h) == IF h.present THEN h.v ELSE <<>>

AbsentTs == [present |-> FALSE, text |-> "empty", ms |-> 0]
EmptyTs == [present |-> TRUE, text |-> "empty", ms |-> 0]
GarbageTs == [present |-> TRUE, text |-> "garbage", ms |-> 0]
IsoTs(ms) == [present |-> TRUE, text |-> "iso", ms |-> ms]

\* headers.get("X-Timestamp") || "" : the text, "" when the header is absent
TsOrEmpty(h) == IF h.present THEN h ELSE EmptyTs

\* the !ts test left out
TsNeverFalsy(ts) == FALSE

\* !ts for the text of a timestamp header
TsFalsy(ts) == ~ts.present \/ ts.text = "empty"

-----------------------------------------------------------------------------
(* Responses                                                               *)

NullData == [isNull |-> TRUE, ok |-> FALSE, message |-> <<>>,
             namespace |-> Undefined, productId |-> Undefined]

Data(ok, message, namespace, productId) ==
  [isNull |-> FALSE, ok |-> ok, message |-> message,
   namespace |-> namespace, productId |-> productId]

\* { ok, message }
Msg(ok, message) == Data(ok, message, Undefined, Undefined)

\* the body handed to new Response: null, or a text
NoBody == [k |-> "none", json |-> NullData]
\* JSON.stringify(data): the text "null" for null
JSONStringify(data) == [k |-> "text", json |-> data]

Threw == [kind |-> "threw", status |-> 500, body |-> NoBody,
          headers |-> [ts |-> AbsentTs, corr |-> Absent, sig |-> Absent, cors |-> FALSE]]

NullBodyStatus == {101, 204, 205, 304}

\* new Response(body, {status, headers}): a body with a null body status is a
\* TypeError by the Fetch standard; a runtime that does not enforce it builds
\* the response.  Both outcomes are kept.
NewResponse(body, status, headers) ==
  LET built == [kind |-> "response", status |-> status, body |-> body, headers |-> headers]
  IN IF body.k # "none" /\ status \in NullBodyStatus THEN {Threw, built} ELSE {built}

-----------------------------------------------------------------------------
(* HMAC-enforcing handler, src/src/index.ts lines 1-181                    *)

\* json(data, status, {}, {correlationId}) and the clock it reads
HmacJson(data, status, correlationId, clk) ==
  NewResponse(JSONStringify(data), status,
              [ts |-> IsoTs(clk),
               corr |-> IF correlationId.present /\ correlationId.v # <<>>
                        THEN correlationId ELSE Absent,
               sig |-> Absent,
               cors |-> TRUE])

\* handleOptions(): json(null, 204)
HmacHandleOptions(clk) == HmacJson(NullData, 204, Absent, clk)

CharTable == <<" ", ",", "-", "=", "0", "1", "2", "3", "4", "5", "6", "7", "8", "9",
               "A", "B", "C", "D", "E", "F", "S",
               "a", "b", "c", "d", "e", "f", "g", "h", "i", "j", "k", "l", "m",
               "n", "o", "p", "q", "r", "s", "t", "u", "v", "w", "x", "y", "z">>

CharCode(c) == 31 + (CHOOSE i \in 1..Len(CharTable) : CharTable[i] = c)

\* TextEncoder.encode for a string
Encode(s) == [i \in 1..Len(s) |-> CharCode(s[i])]

ValueOctets(a) ==
  CASE a.t = "undef" -> <<>>
    [] a.t = "null" -> <<110>>
    [] a.t = "str" -> <<34>> \o Encode(a.s) \o <<34>>
    [] OTHER -> <<48 + a.n>>

\* TextEncoder.encode for the raw body text (member names elided)
EncodeBody(raw) ==
  CASE raw.k = "empty" -> <<>>
    [] raw.k = "garbage" -> <<123>>
    [] raw.j.k = "null" -> <<110>>
    [] raw.j.k = "prim" -> <<49>>
    [] OTHER -> <<123>> \o ValueOctets(raw.j.f["eventType"]) \o <<44>>
                \o ValueOctets(raw.j.f["eventId"]) \o <<44>>
                \o ValueOctets(raw.j.f["playerId"]) \o <<44>>
                \o ValueOctets(raw.j.f["offerId"]) \o <<44>>
                \o ValueOctets(raw.j.f["namespace"]) \o <<44>>
                \o ValueOctets(raw.j.f["quantity"]) \o <<44>>
                \o ValueOctets(raw.j.f["productId"]) \o <<125>>

RECURSIVE Absorb(_)
\* a digest octet of a sequence of octets, folded by halves
Absorb(octets) ==
  LET n == Len(octets)
      h == n \div 2
  IN IF n = 0 THEN 7
     ELSE IF n = 1 THEN octets[1] % 256
     ELSE (Absorb(SubSeq(octets, 1, h)) * 31
           + Absorb(SubSeq(octets, h + 1, n)) * 17 + n) % 256

\* crypto.subtle.sign("HMAC", key, data): a keyed digest of DigestLen octets
\* standing for HMAC-SHA256 (a function of key and data, octets in 0..255)
DigestLen == 2
HmacSign(key, data) ==
  [i \in 1..DigestLen |->
     (Absorb(key \o data \o key) * (2 * i + 1) + Absorb(key) * i + 53) % 256]

LowerHex == <<"0", "1", "2", "3", "4", "5", "6", "7", "8", "9", "a", "b", "c", "d", "e", "f">>

\* b.toString(16)
ToString16(b) ==
  IF b < 16 THEN <<LowerHex[b + 1]>>
  ELSE <<LowerHex[(b \div 16) + 1], LowerHex[(b % 16) + 1]>>

\* s, not padded
NoPadStart(s) == s

\* s.padStart(2, "0")
PadStart2(s) == IF Len(s) < 2 THEN <<"0">> \o s ELSE s

RECURSIVE Join(_)
Join(parts) == IF parts = <<>> THEN <<>> ELSE Head(parts) \o Join(Tail(parts))

SIG_PREFIX == <<"S", "8", "1", "3", "7", "=">>

\* calcSignature(bodyText, secret)
calcSignature(bodyText, secret) ==
  LET sigBuf == HmacSign(Encode(secret), EncodeBody(bodyText))
      hex == Join([i \in 1..Len(sigBuf) |-> PadStart2(ToString16(sigBuf[i]))])
  IN SIG_PREFIX \o hex

SkewMs == 10 * 60 * 1000

Abs(x) == IF x < 0 THEN -x ELSE x

\* the comparison with skewMs made strict
withinTimeSkewStrict(ts, clk) ==
  IF ts.text # "iso" THEN FALSE ELSE Abs(clk - ts.ms) < SkewMs

\* withinTimeSkew(tsIso): Date.parse is NaN unless the text is a date
withinTimeSkew(ts, clk) ==
  IF ts.text # "iso" THEN FALSE ELSE Abs(clk - ts.ms) <= SkewMs

\* env.WEBHOOK_SECRET === undefined
SecretUndefined(e) == ~e.present

\* !env.WEBHOOK_SECRET
SecretFalsy(e) == ~e.present \/ e.v = <<>>

\* verifyHeadersAndSignature up to `await calcSignature`, lines 59-71:
\* settled when it has returned, res its result
verifyBeforeAwait(req, e, clk) ==
  LET ts == TsOrEmpty(req.ts)
      sig == GetOrEmpty(req.sig)
      pending == [ok |-> FALSE, code |-> 0, msg |-> <<>>]
  IN IF TsFalsy(ts) \/ ~withinTimeSkew(ts, clk)
     THEN [settled |-> TRUE,
           res |-> [ok |-> FALSE, code |-> 400, msg |-> <<"Missing or invalid X-Timestamp">>]]
     ELSE IF sig = <<>>
     THEN [settled |-> TRUE,
           res |-> [ok |-> FALSE, code |-> 401, msg |-> <<"Invalid or missing X-Signature">>]]
     ELSE IF SecretFalsy(e)
     THEN [settled |-> TRUE,
           res |-> [ok |-> FALSE, code |-> 500,
                    msg |-> <<"Server misconfigured: missing WEBHOOK_SECRET">>]]
     ELSE [settled |-> FALSE, res |-> pending]

\* verifyHeadersAndSignature from `await calcSignature` on, lines 73-76
verifyAfterAwait(req, bodyText, e) ==
  IF GetOrEmpty(req.sig) # calcSignature(bodyText, e.v)
  THEN [ok |-> FALSE, code |-> 401, msg |-> <<"Invalid or missing X-Signature">>]
  ELSE [ok |-> TRUE, code |-> 200, msg |-> <<"ok">>]

\* verifyHeadersAndSignature(req, bodyText, env)
verifyHeadersAndSignature(req, bodyText, e, clk) ==
  LET pre == verifyBeforeAwait(req, e, clk)
  IN IF pre.settled THEN pre.res ELSE verifyAfterAwait(req, bodyText, e)

\* requireField(obj, key) throws {code, msg}: TRUE when it throws
requireField(obj, key) ==
  LET v == Prop(obj, key)
  IN v.t = "undef" \/ v.t = "null" \/ (v.t = "str" /\ Trim(v.s) = <<>>)

\* the required fields with quantity left unchecked
RequiredFieldsNoQuantity(type) ==
  IF type = ACKNOWLEDGE THEN <<"eventId">>
  ELSE IF type = PLAYER_ID_VERIFICATION THEN <<"eventId", "playerId">>
  ELSE <<"eventId", "playerId", "offerId", "namespace">>

\* the required fields of each event type, in the order they are checked
RequiredFields(type) ==
  IF type = ACKNOWLEDGE THEN <<"eventId">>
  ELSE IF type = PLAYER_ID_VERIFICATION THEN <<"eventId", "playerId">>
  ELSE <<"eventId", "playerId", "offerId", "namespace", "quantity">>

KnownTypes == {ACKNOWLEDGE, PLAYER_ID_VERIFICATION, FULFILL, CLAWBACK}

RECURSIVE FirstThrow(_, _)
\* the first key for which requireField throws, "" when none does
FirstThrow(obj, keys) ==
  IF keys = <<>> THEN ""
  ELSE IF requireField(obj, Head(keys)) THEN Head(keys)
  ELSE FirstThrow(obj, Tail(keys))

\* the success body with productId || null
SuccessOrNull(payload) ==
  Data(TRUE, <<"Webhook verified successfully">>,
       Nullish(Prop(payload, "namespace"), Null),
       OrElse(Prop(payload, "productId"), Null))

\* the success body, lines 122-127
Success(payload) ==
  Data(TRUE, <<"Webhook verified successfully">>,
       Nullish(Prop(payload, "namespace"), Null),
       Nullish(Prop(payload, "productId"), Null))

\* the try block of fetch, lines 115-175
HmacBusiness(payload, correlationId, clk) ==
  IF payload.k = "null"
  THEN \* obj[key] on null is a TypeError: no numeric code, no string msg
       HmacJson(Msg(FALSE, <<"Bad Request">>), 400, correlationId, clk)
  ELSE IF requireField(payload, "eventType")
  THEN HmacJson(Msg(FALSE, <<"Missing ", "eventType">>), 400, correlationId, clk)
  ELSE LET type == Prop(payload, "eventType") IN
       IF type.t = "str" /\ type.s \in KnownTypes
       THEN LET missing == FirstThrow(payload, RequiredFields(type.s)) IN
            IF missing # ""
            THEN HmacJson(Msg(FALSE, <<"Missing ", missing>>), 400, correlationId, clk)
            ELSE HmacJson(Success(payload), 200, correlationId, clk)
       ELSE HmacJson(Msg(FALSE, <<"Unsupported eventType: ">> \o ToStr(type)),
                     400, correlationId, clk)

\* payload = bodyText ? JSON.parse(bodyText) : {}
HmacPayload(bodyText) == IF bodyText.k = "empty" THEN EmptyObject ELSE bodyText.j

\* fetch from the result of verifyHeadersAndSignature on, lines 110-175
HmacAfterVerify(sigRes, payload, correlationId, clk) ==
  IF ~sigRes.ok
  THEN HmacJson(Msg(FALSE, sigRes.msg), sigRes.code, correlationId, clk)
  ELSE HmacBusiness(payload, correlationId, clk)

\* fetch(request, env), lines 87-180
HmacFetch(req, e, clk) ==
  IF req.method = "OPTIONS" THEN HmacHandleOptions(clk)
  ELSE LET correlationId == req.corr IN
  IF req.path = "/"
  THEN HmacJson(Msg(TRUE, <<"Hello from Daicy Cloudflare Worker!">>), 200, correlationId, clk)
  ELSE IF req.path = "/verify" /\ req.method = "POST"
  THEN IF req.body.k = "garbage"
       THEN HmacJson(Msg(FALSE, <<"Invalid JSON">>), 400, correlationId, clk)
       ELSE HmacAfterVerify(verifyHeadersAndSignature(req, req.body, e, clk),
                            HmacPayload(req.body), correlationId, clk)
  ELSE HmacJson(Msg(FALSE, <<"Not Found">>), 404, correlationId, clk)

-----------------------------------------------------------------------------
(* Shape-checking handler, src/src/index.ts lines 192-309                  *)

\* json(data, status): no X-Timestamp, no echoed header
ShapeJson(data, status) ==
  NewResponse(JSONStringify(data), status,
              [ts |-> AbsentTs, corr |-> Absent, sig |-> Absent, cors |-> TRUE])

\* handleOptions(): new Response(null, {status: 204, ...})
ShapeHandleOptions ==
  NewResponse(NoBody, 204,
              [ts |-> AbsentTs, corr |-> Absent, sig |-> Absent, cors |-> TRUE])

\* the segments with .filter(Boolean) left out
TrimmedPartsUnfiltered(s) ==
  LET parts == Split(s) IN [i \in 1..Len(parts) |-> Trim(parts[i])]

\* the segments of parseSignatureHeader: split, trim each, drop the empty ones
TrimmedParts(s) ==
  LET parts == Split(s)
      trimmed == [i \in 1..Len(parts) |-> Trim(parts[i])]
  IN SelectSeq(trimmed, LAMBDA p : p # <<>>)

\* eq <= 0 || eq === p.length - 1
BadSegment(p) ==
  LET eq == IndexOf(p, "=") IN eq <= 0 \/ eq = Len(p) - 1

\* parseSignatureHeader(sig).valid, sig a header that may be absent (null)
parseSignatureHeader(sig) ==
  IF ~sig.present THEN FALSE
  ELSE LET s == Trim(sig.v) IN
       IF s = <<>> THEN FALSE
       ELSE LET parts == TrimmedParts(s) IN
            IF Len(parts) = 0 THEN FALSE
            ELSE \A i \in 1..Len(parts) : ~BadSegment(parts[i])

\* !xSignature: the header is absent (null) or its value is ""
ShapeSigFalsy(sig) == ~sig.present \/ sig.v = <<>>

\* fetch(request), lines 233-308
ShapeFetch(req) ==
  IF req.method = "OPTIONS" THEN ShapeHandleOptions
  ELSE IF req.method = "GET" /\ req.path = "/"
  THEN ShapeJson(Msg(TRUE, <<"Hello from Daicy Cloudflare Worker!">>), 200)
  ELSE IF req.method = "GET" /\ req.path = "/verify"
  THEN ShapeJson(Msg(TRUE, <<"Webhook verify endpoint is alive">>), 200)
  ELSE IF req.method = "POST" /\ req.path = "/verify"
  THEN IF ~req.ctJson
       THEN ShapeJson(Msg(FALSE, <<"Invalid content-type">>), 400)
       ELSE IF ParseThrows(req.body)
       THEN ShapeJson(Msg(FALSE, <<"Invalid JSON">>), 400)
       ELSE IF req.body.j.k = "null"
       THEN {Threw}  \* body.eventType on null, outside the try block
       ELSE LET body == req.body.j
                eventType == ToStr(OrElse(Prop(body, "eventType"), Str(<<>>)))
                eventId == Trim(ToStr(OrElse(Prop(body, "eventId"), Str(<<>>))))
                productId == OrElse(Prop(body, "productId"), Null)
                namespace == Nullish(Prop(body, "namespace"), Null)
            IN IF eventId = <<>>
               THEN ShapeJson(Msg(FALSE, <<"Missing eventId">>), 400)
               ELSE IF TsFalsy(req.ts)
               THEN ShapeJson(Msg(FALSE, <<"Missing X-Timestamp">>), 400)
               ELSE IF ShapeSigFalsy(req.sig)
               THEN IF eventType = PLAYER_ID_VERIFICATION
                    THEN ShapeJson(Msg(FALSE, <<"Invalid or missing X-Signature">>), 428)
                    ELSE ShapeJson(Msg(FALSE, <<"Invalid or missing X-Signature">>), 401)
               ELSE IF ~parseSignatureHeader(req.sig)
               THEN ShapeJson(Msg(FALSE, <<"Invalid or missing X-Signature">>), 401)
               ELSE ShapeJson(Data(TRUE, <<"Webhook verified successfully">>,
                                   namespace, productId), 200)
  ELSE ShapeJson(Msg(FALSE, <<"Not Found">>), 404)

-----------------------------------------------------------------------------
(* Echoing handler, src/unnamed/part_000                                   *)

\* json(data, status, reqHeaders): echoes x-timestamp and x-epic-correlation-id
EchoJson(data, status, req) ==
  NewResponse(JSONStringify(data), status,
              [ts |-> IF TsFalsy(req.ts) THEN AbsentTs ELSE req.ts,
               corr |-> IF req.corr.present /\ req.corr.v # <<>> THEN req.corr ELSE Absent,
               sig |-> Absent,
               cors |-> TRUE])

\* new Response(text, {status, headers}) of the health and not-found routes
EchoPlain(data, status) ==
  NewResponse([k |-> "plain", json |-> data], status,
              [ts |-> AbsentTs, corr |-> Absent, sig |-> Absent, cors |-> FALSE])

\* fetch(request), lines 2-136
EchoFetch(req) ==
  IF req.method = "OPTIONS" THEN EchoJson(NullData, 204, req)
  ELSE IF req.path = "/verify"
  THEN IF req.method # "POST"
       THEN EchoJson(Msg(FALSE, <<"Method not allowed">>), 405, req)
       ELSE LET signature == GetOrEmpty(req.sig)
                timestamp == TsOrEmpty(req.ts)
            IN IF ParseThrows(req.body)
               THEN EchoJson(Msg(FALSE, <<"Invalid JSON">>), 400, req)
               ELSE LET body == req.body.j
                        eventType == OptProp(body, "eventType")
                        eventId == Nullish(OptProp(body, "eventId"), Str(<<>>))
                        playerId == OptProp(body, "playerId")
                        namespace == Nullish(OptProp(body, "namespace"), Null)
                        productId == Nullish(OptProp(body, "productId"), Null)
                    IN IF signature = <<>>
                       THEN EchoJson(Msg(FALSE, <<"Invalid or missing X-Signature">>), 401, req)
                       ELSE IF TsFalsy(timestamp)
                       THEN EchoJson(Msg(FALSE, <<"Missing X-Timestamp">>), 400, req)
                       ELSE IF ~Truthy(eventId)
                       THEN EchoJson(Msg(FALSE, <<"Missing eventId">>), 400, req)
                       ELSE IF eventType = Str(ACKNOWLEDGE)
                       THEN EchoJson(Data(TRUE, <<"Webhook verified successfully">>,
                                          namespace, productId), 200, req)
                       ELSE IF eventType = Str(PLAYER_ID_VERIFICATION)
                       THEN IF ~Truthy(playerId)
                            THEN EchoJson(Msg(FALSE, <<"Missing playerId">>), 400, req)
                            ELSE EchoJson(Data(TRUE, <<"Player verified">>,
                                               Undefined, productId), 200, req)
                       ELSE IF eventType \in {Str(FULFILL), Str(CLAWBACK)}
                       THEN EchoJson(Data(TRUE, <<"Webhook verified successfully">>,
                                          namespace, productId), 200, req)
                       ELSE EchoJson(Msg(TRUE, <<"Webhook verified successfully">>), 200, req)
  ELSE IF req.path = "/"
  THEN EchoPlain(Msg(TRUE, <<"Hello from Daicy Cloudflare Worker!">>), 200)
  ELSE EchoPlain(Msg(FALSE, <<"Not Found">>), 404)

-----------------------------------------------------------------------------
(* Final-version handler, src/unnamed/part_002                             *)

\* the echo argument {reqSig, corrId} as read at lines 55-57
FinalCorrId(req) == IF req.corr.present /\ req.corr.v # <<>> THEN req.corr ELSE Absent
FinalReqSig(req) == Hdr(GetOrEmpty(req.sig))

\* json(data, status, {}, {reqSig, corrId})
FinalJson(data, status, req, clk) ==
  NewResponse(JSONStringify(data), status,
              [ts |-> IsoTs(clk),
               corr |-> FinalCorrId(req),
               sig |-> FinalReqSig(req),
               cors |-> TRUE])

\* noContent({reqSig, corrId})
noContent(req, clk) ==
  NewResponse(NoBody, 204,
              [ts |-> IsoTs(clk),
               corr |-> Hdr(GetOrEmpty(FinalCorrId(req))),
               sig |-> Hdr(GetOrEmpty(FinalReqSig(req))),
               cors |-> TRUE])

\* malformedSignature(sig)
malformedSignature(sig) ==
  LET s == Trim(sig) IN
  IF s = <<>> THEN TRUE
  ELSE LET parts == Split(s) IN \E i \in 1..Len(parts) : BadSegment(parts[i])

\* fetch(req), lines 52-103
FinalFetch(req, clk) ==
  LET reqSigHeaderPresent == req.sig.present
      reqSig == GetOrEmpty(req.sig)
      reqTs == TsOrEmpty(req.ts)
  IN
  IF req.method = "OPTIONS" THEN noContent(req, clk)
  ELSE IF req.method = "GET" /\ req.path = "/"
  THEN FinalJson(Msg(TRUE, <<"Hello from Daicy Cloudflare Worker!">>), 200, req, clk)
  ELSE IF req.method = "GET" /\ req.path = "/verify"
  THEN FinalJson(Msg(TRUE, <<"Verify endpoint is alive">>), 200, req, clk)
  ELSE IF req.method = "POST" /\ req.path = "/verify"
  THEN IF req.body.k = "garbage"
       THEN FinalJson(Msg(FALSE, <<"Invalid JSON">>), 400, req, clk)
       ELSE LET body == IF req.body.k = "empty" THEN EmptyObject ELSE req.body.j
                type == ToStr(Nullish(OptProp(body, "eventType"), Str(<<>>)))
                eventId == Trim(ToStr(Nullish(OptProp(body, "eventId"), Str(<<>>))))
            IN IF type = <<>>
               THEN FinalJson(Msg(FALSE, <<"Missing eventType">>), 400, req, clk)
               ELSE IF eventId = <<>>
               THEN FinalJson(Msg(FALSE, <<"Missing eventId">>), 400, req, clk)
               ELSE IF TsFalsy(reqTs)
               THEN FinalJson(Msg(FALSE, <<"Missing X-Timestamp">>), 400, req, clk)
               ELSE IF ~reqSigHeaderPresent
               THEN FinalJson(Msg(FALSE, <<"Invalid or missing X-Signature">>),
                              IF type = PLAYER_ID_VERIFICATION THEN 428 ELSE 401, req, clk)
               ELSE IF Trim(reqSig) = <<>> \/ malformedSignature(reqSig)
               THEN FinalJson(Msg(FALSE, <<"Invalid or missing X-Signature">>), 401, req, clk)
               ELSE FinalJson(Data(TRUE, <<"Webhook verified successfully">>,
                                   Nullish(OptProp(body, "namespace"), Null),
                                   Nullish(OptProp(body, "productId"), Null)),
                              200, req, clk)
  ELSE FinalJson(Msg(FALSE, <<"Not Found">>), 404, req, clk)

-----------------------------------------------------------------------------
(* Requests                                                                *)

MaxSigLen == 3

SigAlphabet == {"k", "=", ",", " "}

\* the texts Headers.get can return: no leading or trailing white space
HeaderTexts ==
  {s \in UNION {[1..n -> SigAlphabet] : n \in 0..MaxSigLen} : Trim(s) = s}

UpperHex == <<"0", "1", "2", "3", "4", "5", "6", "7", "8", "9", "A", "B", "C", "D", "E", "F">>

\* the signature a sender computes for a body under a secret:
\* "S8137=" followed by two lowercase hex digits per digest octet
SenderSignature(raw, secret, hexDigits) ==
  LET d == HmacSign(Encode(secret), EncodeBody(raw))
  IN SIG_PREFIX \o Join([i \in 1..Len(d) |->
                          <<hexDigits[(d[i] \div 16) + 1], hexDigits[(d[i] % 16) + 1]>>])

Secret1 == <<"s", "1">>
Secret2 == <<"s", "2">>

Secrets == {Absent, Hdr(<<>>), Hdr(Secret1)}

ClockStart == 1000000

Obj(eventType, eventId, playerId, offerId, namespace, quantity, productId) ==
  [k |-> "json",
   j |-> [k |-> "obj",
          f |-> [eventType |-> eventType, eventId |-> eventId, playerId |-> playerId,
                 offerId |-> offerId, namespace |-> namespace, quantity |-> quantity,
                 productId |-> productId]]]

Garbage == [k |-> "garbage", j |-> EmptyObject]
EmptyText == [k |-> "empty", j |-> EmptyObject]
JsonNull == [k |-> "json", j |-> [k |-> "null", f |-> NoFields]]
JsonPrim == [k |-> "json", j |-> [k |-> "prim", f |-> NoFields]]

U == Undefined
E1 == Str(<<"e">>)
P1 == Str(<<"p">>)
O1 == Str(<<"o">>)
N1 == Str(<<"n">>)
Blank == Str(<<" ">>)

AckBody == Obj(Str(ACKNOWLEDGE), E1, U, U, N1, U, P1)

SmallBodies ==
  {Garbage, EmptyText, JsonNull, JsonPrim,
   Obj(U, U, U, U, U, U, U),
   Obj(U, E1, P1, U, U, U, U),
   Obj(Str(ACKNOWLEDGE), U, U, U, U, U, U),
   AckBody,
   Obj(Str(ACKNOWLEDGE), Blank, U, U, U, U, U),
   Obj(Str(PLAYER_ID_VERIFICATION), E1, P1, U, U, U, U),
   Obj(Str(PLAYER_ID_VERIFICATION), E1, U, U, U, U, U),
   Obj(Str(<<"x">>), E1, U, U, U, U, U)}

EventTypes ==
  {U, Str(<<>>), Blank, Str(ACKNOWLEDGE), Str(PLAYER_ID_VERIFICATION),
   Str(FULFILL), Str(CLAWBACK), Str(<<"x">>), Num(1)}

AllBodies ==
  {Obj(ty, ei, pl, off, ns, q, pr) :
     ty \in EventTypes,
     ei \in {U, Null, Str(<<>>), Blank, E1, Num(0)},
     pl \in {U, Blank, P1},
     off \in {U, O1},
     ns \in {U, Null, N1},
     q \in {U, Num(0), Num(1)},
     pr \in {U, Str(<<>>), P1}}

Timestamps(clk) ==
  {AbsentTs, EmptyTs, GarbageTs, IsoTs(clk),
   IsoTs(clk - SkewMs), IsoTs(clk - SkewMs - 1),
   IsoTs(clk + SkewMs), IsoTs(clk + SkewMs + 1)}

\* signatures a sender may compute for a body: the right one, its upper-case
\* form, one under another secret, one over another body
SignedSigs(raw, e) ==
  LET secret == IF SecretFalsy(e) THEN Secret1 ELSE e.v IN
  {Hdr(SenderSignature(raw, secret, LowerHex)),
   Hdr(SenderSignature(raw, secret, UpperHex)),
   Hdr(SenderSignature(raw, Secret2, LowerHex)),
   Hdr(SenderSignature(IF raw = AckBody THEN EmptyText ELSE AckBody, secret, LowerHex))}

Req(method, path, ts, sig, corr, ctJson, body) ==
  [method |-> method, path |-> path, ts |-> ts, sig |-> sig, corr |-> corr,
   ctJson |-> ctJson, body |-> body]

Corr1 == Hdr(<<"c">>)

\* POST /verify with every header combination over a few bodies
HeaderFocus(clk) ==
  \E b \in SmallBodies, e \in Secrets, ts \in Timestamps(clk), corr \in {Absent, Corr1} :
    \E sig \in {Absent} \cup {Hdr(t) : t \in HeaderTexts} \cup SignedSigs(b, e) :
      /\ request = Req("POST", "/verify", ts, sig, corr, TRUE, b)
      /\ env = e

\* POST /verify with passing headers over every body
BodyFocus(clk) ==
  \E b \in AllBodies :
    \E sig \in {Hdr(SenderSignature(b, Secret1, LowerHex)), Hdr(<<"k", "=", "k">>)} :
      /\ request = Req("POST", "/verify", IsoTs(clk), sig, Absent, TRUE, b)
      /\ env = Hdr(Secret1)

\* every method and path
RouteFocus(clk) ==
  \E m \in {"GET", "POST", "OPTIONS"}, p \in {"/", "/verify", "/other"},
     ts \in {AbsentTs, IsoTs(clk)}, corr \in {Absent, Hdr(<<>>), Corr1},
     ct \in BOOLEAN, b \in {Garbage, AckBody}, e \in Secrets :
    \E sig \in {Absent, Hdr(<<>>), Hdr(<<"k", "=", "k">>),
                Hdr(SenderSignature(b, Secret1, LowerHex))} :
      /\ request = Req(m, p, ts, sig, corr, ct, b)
      /\ env = e

Inputs(clk) == HeaderFocus(clk) \/ BodyFocus(clk) \/ RouteFocus(clk)

NoResponse == [kind |-> "none", status |-> 0, body |-> NoBody,
               headers |-> [ts |-> AbsentTs, corr |-> Absent, sig |-> Absent, cors |-> FALSE]]

-----------------------------------------------------------------------------
(* One request handled by one of the variants                              *)

Init ==
  /\ pc = "recv"
  /\ handler = "none"
  /\ now = ClockStart
  /\ Inputs(ClockStart)
  /\ response = NoResponse
  /\ tasks = <<>>

Handle(name, outcomes) ==
  /\ pc = "recv"
  /\ pc' = "done"
  /\ handler' = name
  /\ response' \in outcomes
  /\ UNCHANGED <<request, env, now, tasks>>

HandleHmac == Handle("hmac", HmacFetch(request, env, now))
HandleShape == Handle("shape", ShapeFetch(request))
HandleEcho == Handle("echo", EchoFetch(request))
HandleFinal == Handle("final", FinalFetch(request, now))

Next == HandleHmac \/ HandleShape \/ HandleEcho \/ HandleFinal

Spec == Init /\ [][Next]_vars

-----------------------------------------------------------------------------
(* Requests in flight together: each invocation of fetch runs from one      *)
(* await to the next, and invocations interleave at the awaits.  A task is  *)
(* one invocation: its request, the locals that live across its awaits, the *)
(* clock reading its timestamp check made, and its response.                *)

MaxInFlight == 2
MaxTicks == 1

\* a timestamp fresh at ClockStart and stale one tick later
EdgeTs == IsoTs(ClockStart - SkewMs)

BlankIdBody == Obj(Str(ACKNOWLEDGE), Blank, U, U, U, U, U)

\* a request signed by its sender under Secret1
SignedPost(ts, b) ==
  Req("POST", "/verify", ts, Hdr(SenderSignature(b, Secret1, LowerHex)), Absent, TRUE, b)

ConcRequests ==
  {SignedPost(EdgeTs, AckBody),
   SignedPost(IsoTs(ClockStart), BlankIdBody),
   Req("POST", "/verify", AbsentTs, Absent, Absent, TRUE, Garbage),
   Req("GET", "/", AbsentTs, Absent, Absent, TRUE, EmptyText)}

NewTask(variant, req) ==
  [variant |-> variant, req |-> req, pc |-> "start",
   bodyText |-> EmptyText, clockRead |-> 0, response |-> NoResponse]

InitConc ==
  /\ pc = "idle"
  /\ handler = "none"
  /\ request = Req("GET", "/", AbsentTs, Absent, Absent, TRUE, EmptyText)
  /\ response = NoResponse
  /\ env = Hdr(Secret1)
  /\ now = ClockStart
  /\ tasks \in [1..MaxInFlight ->
                  {NewTask(v, r) : v \in {"hmac", "final"}, r \in ConcRequests}]

\* every invocation's locals held in one place, as if declared at module scope
SharedLocals(ts, i) == ts[1]

\* the locals of invocation i: request, bodyText and payload are declared
\* inside fetch, so each invocation has its own
Locals(ts, i) == ts[i]

\* invocation i returns one of the outcomes
Finish(i, outcomes, clockRead) ==
  \E r \in outcomes :
    tasks' = [tasks EXCEPT ![i].pc = "done", ![i].response = r,
                           ![i].clockRead = clockRead]

\* hmac fetch up to `await request.text()`, lines 88-100
HmacStart(i) ==
  /\ tasks[i].pc = "start" /\ tasks[i].variant = "hmac"
  /\ LET req == tasks[i].req IN
     IF req.method # "OPTIONS" /\ req.path = "/verify" /\ req.method = "POST"
     THEN tasks' = [tasks EXCEPT ![i].pc = "text"]
     ELSE Finish(i, HmacFetch(req, env, now), now)
  /\ UNCHANGED <<pc, handler, request, env, now, response>>

\* hmac fetch from the body text to `await calcSignature`, lines 100-109 and 59-73
HmacText(i) ==
  /\ tasks[i].pc = "text" /\ tasks[i].variant = "hmac"
  /\ LET req == tasks[i].req
         bodyText == req.body
         pre == verifyBeforeAwait(req, env, now)
     IN IF bodyText.k = "garbage"
        THEN Finish(i, HmacJson(Msg(FALSE, <<"Invalid JSON">>), 400, req.corr, now), now)
        ELSE IF pre.settled
        THEN Finish(i, HmacAfterVerify(pre.res, HmacPayload(bodyText), req.corr, now), now)
        ELSE tasks' = [tasks EXCEPT ![i].pc = "sign", ![i].bodyText = bodyText,
                                    ![i].clockRead = now]
  /\ UNCHANGED <<pc, handler, request, env, now, response>>

\* hmac fetch from the computed signature to the response, lines 73-76 and 110-175
HmacSigned(i) ==
  /\ tasks[i].pc = "sign" /\ tasks[i].variant = "hmac"
  /\ LET mine == Locals(tasks, i)
         sigRes == verifyAfterAwait(mine.req, mine.bodyText, env)
     IN Finish(i, HmacAfterVerify(sigRes, HmacPayload(mine.bodyText), mine.req.corr, now),
               tasks[i].clockRead)
  /\ UNCHANGED <<pc, handler, request, env, now, response>>

\* final fetch up to `await req.text()`, lines 53-69
FinalStart(i) ==
  /\ tasks[i].pc = "start" /\ tasks[i].variant = "final"
  /\ LET req == tasks[i].req IN
     IF req.method = "POST" /\ req.path = "/verify"
     THEN tasks' = [tasks EXCEPT ![i].pc = "text", ![i].bodyText = req.body]
     ELSE Finish(i, FinalFetch(req, now), now)
  /\ UNCHANGED <<pc, handler, request, env, now, response>>

\* final fetch from the body text to the response, lines 69-99
FinalText(i) ==
  /\ tasks[i].pc = "text" /\ tasks[i].variant = "final"
  /\ Finish(i, FinalFetch(Locals(tasks, i).req, now), now)
  /\ UNCHANGED <<pc, handler, request, env, now, response>>

\* the server clock advances between the steps
Tick ==
  /\ now < ClockStart + MaxTicks
  /\ now' = now + 1
  /\ UNCHANGED <<pc, handler, request, env, response, tasks>>

NextConc ==
  \/ \E i \in 1..MaxInFlight :
       HmacStart(i) \/ HmacText(i) \/ HmacSigned(i) \/ FinalStart(i) \/ FinalText(i)
  \/ Tick

SpecConc == InitConc /\ [][NextConc]_vars

-----------------------------------------------------------------------------
(* The two signature-shape checkers applied to the same text               *)

MaxTextLen == 7

\* every text over the alphabet, white space at either end included
SigTexts == UNION {[1..n -> SigAlphabet] : n \in 0..MaxTextLen}

Called(fn) == \E i \in 1..Len(tasks) : tasks[i].fn = fn

Result(fn) == tasks[CHOOSE i \in 1..Len(tasks) : tasks[i].fn = fn].result

InitSig ==
  /\ pc = "recv"
  /\ handler = "none"
  /\ now = ClockStart
  /\ env = Absent
  /\ \E s \in SigTexts :
       request = Req("POST", "/verify", IsoTs(ClockStart), Hdr(s), Absent, TRUE, AckBody)
  /\ response = NoResponse
  /\ tasks = <<>>

\* malformedSignature(reqSig), part_002 line 86
CallMalformedSignature ==
  /\ ~Called("malformedSignature")
  /\ tasks' = Append(tasks, [fn |-> "malformedSignature",
                             result |-> malformedSignature(request.sig.v)])
  /\ UNCHANGED <<pc, handler, request, env, now, response>>

\* parseSignatureHeader(xSignature).valid, index.ts line 279
CallParseSignatureHeader ==
  /\ ~Called("parseSignatureHeader")
  /\ tasks' = Append(tasks, [fn |-> "parseSignatureHeader",
                             result |-> parseSignatureHeader(request.sig)])
  /\ UNCHANGED <<pc, handler, request, env, now, response>>

NextSig == CallMalformedSignature \/ CallParseSignatureHeader

SpecSig == InitSig /\ [][NextSig]_vars

-----------------------------------------------------------------------------
(* Vocabulary of the properties                                            *)

Done(h) == pc = "done" /\ handler = h
PostVerify == request.method = "POST" /\ request.path = "/verify"
Parseable == request.body.k # "garbage"
SecretConfigured == env.present /\ env.v # <<>>
FreshTimestamp ==
  /\ request.ts.present
  /\ request.ts.text = "iso"
  /\ request.ts.ms - now <= 600000
  /\ now - request.ts.ms <= 600000
RightSignature ==
  /\ request.sig.present
  /\ request.sig.v = SenderSignature(request.body, env.v, LowerHex)

-----------------------------------------------------------------------------
\* C1: in the HMAC-enforcing handler with a secret configured, a POST /verify
\* request with a parseable body and a fresh X-Timestamp gets past signature
\* verification (is answered 200 or 400 by the field checks) exactly when its
\* X-Signature is "S8137=" followed by the lowercase hex digest of the raw body
\* under the secret; with any other X-Signature it is answered 401.
C1_SignatureExact ==
  (Done("hmac") /\ PostVerify /\ Parseable /\ SecretConfigured /\ FreshTimestamp)
    => IF RightSignature
       THEN response.status \in {200, 400}
       ELSE response.status = 401

\* a correctly signed acknowledge event has been answered 200 by the handler
C1_Witness ==
  /\ Done("hmac") /\ PostVerify /\ SecretConfigured /\ FreshTimestamp
  /\ RightSignature
  /\ request.body = AckBody
  /\ response.status = 200

-----------------------------------------------------------------------------
(* Further vocabulary                                                      *)

IsObject == request.body.k = "json" /\ request.body.j.k = "obj"

\* a member of the request body, undefined when the body is no object
Member(key) == IF IsObject THEN request.body.j.f[key] ELSE Undefined

SigAbsent == ~request.sig.present
SigEmpty == request.sig.present /\ request.sig.v = <<>>
TimestampGiven == request.ts.present /\ request.ts.text # "empty"

\* key=value: a non-empty key before the first "=", a non-empty value after it
KeyValue(p) ==
  \E i \in 2..(Len(p) - 1) : p[i] = "=" /\ \A j \in 1..(i - 1) : p[j] # "="

\* a signature text of the form key=value, optionally comma-separated
WellFormed(s) ==
  /\ s # <<>>
  /\ \A i \in 1..Len(Split(s)) : KeyValue(Split(s)[i])

AllSpaces(s) == \A i \in 1..Len(s) : s[i] = " "

\* a string eventId that is not empty after trimming
EventIdGiven == Member("eventId").t = "str" /\ ~AllSpaces(Member("eventId").s)

\* the body and X-Timestamp checks of the final-version and shape-checking
\* handlers are passed
PassesBodyAndTimestamp ==
  /\ IsObject
  /\ EventIdGiven
  /\ TimestampGiven
  /\ handler = "final" => (Member("eventType").t = "str" /\ Member("eventType").s # <<>>)
  /\ handler = "shape" => (request.ctJson /\ Member("eventType").t \in {"str", "undef"})

-----------------------------------------------------------------------------
\* C2 (as claimed): in the final-version and shape-checking handlers, a POST
\* /verify request that passes the body and X-Timestamp checks is answered 401
\* when X-Signature is present but empty or malformed, whatever the eventType,
\* and, when X-Signature is absent, 428 for event-v1-player-id-verification
\* and 401 for every other eventType.
C2_Original ==
  (pc = "done" /\ handler \in {"final", "shape"} /\ PostVerify /\ PassesBodyAndTimestamp)
    => IF SigAbsent
       THEN response.status =
              IF Member("eventType") = Str(PLAYER_ID_VERIFICATION) THEN 428 ELSE 401
       ELSE ~WellFormed(request.sig.v) => response.status = 401

-----------------------------------------------------------------------------
\* C3 (as claimed): in the HMAC-enforcing, final-version and echoing handlers
\* every POST /verify request without an X-Timestamp header is answered 400.
C3_Original ==
  (pc = "done" /\ handler \in {"hmac", "final", "echo"} /\ PostVerify /\ ~request.ts.present)
    => response.status = 400

\* C3 (amended): a POST /verify request without an X-Timestamp header is
\* answered 400 by the HMAC-enforcing and final-version handlers whatever else
\* it carries; by the echoing handler it is answered 401 when its body parses
\* and its X-Signature is absent or empty, and 400 otherwise.
C3_MissingTimestamp ==
  (pc = "done" /\ handler \in {"hmac", "final", "echo"} /\ PostVerify /\ ~request.ts.present)
    => response.status =
         IF handler = "echo" /\ request.body.k = "json" /\ (SigAbsent \/ SigEmpty)
         THEN 401 ELSE 400

\* the echoing handler has answered 400 to a signed, well-formed event that
\* lacks only the X-Timestamp header
C3_Witness ==
  /\ Done("echo") /\ PostVerify /\ ~request.ts.present
  /\ request.body = AckBody
  /\ request.sig.present /\ request.sig.v # <<>>
  /\ response.status = 400
  /\ response.body.json.message = <<"Missing X-Timestamp">>

-----------------------------------------------------------------------------
NoEventTypeKey == IsObject /\ Member("eventType") = Undefined

\* C4 (as claimed): in the final-version and HMAC-enforcing handlers every
\* POST /verify request whose body is a JSON object without an eventType key is
\* answered 400, whatever its headers and whether or not a secret is
\* configured.
C4_Original ==
  (pc = "done" /\ handler \in {"final", "hmac"} /\ PostVerify /\ NoEventTypeKey)
    => response.status = 400

\* C4 (amended): such a request is answered 400 by the final-version handler
\* whatever its headers.  The HMAC-enforcing handler verifies the headers
\* first: it answers 400 when X-Timestamp is missing, unparseable or outside
\* the window, otherwise 401 when X-Signature is absent or empty, otherwise 500
\* when no secret is configured, otherwise 401 when the signature mismatches,
\* and 400 when the headers pass.
C4_MissingEventType ==
  (pc = "done" /\ handler \in {"final", "hmac"} /\ PostVerify /\ NoEventTypeKey)
    => response.status =
         IF handler = "final" \/ ~FreshTimestamp THEN 400
         ELSE IF SigAbsent \/ SigEmpty THEN 401
         ELSE IF ~SecretConfigured THEN 500
         ELSE IF ~RightSignature THEN 401
         ELSE 400

\* the HMAC-enforcing handler has verified the headers of a body without
\* eventType and answered 400 for the missing field
C4_Witness ==
  /\ Done("hmac") /\ PostVerify /\ NoEventTypeKey
  /\ FreshTimestamp /\ SecretConfigured /\ RightSignature
  /\ response.status = 400
  /\ response.body.json.message = <<"Missing ", "eventType">>

-----------------------------------------------------------------------------
\* the headers are valid for the handler that answered
ValidHeaders ==
  IF handler = "final"
  THEN TimestampGiven /\ request.sig.present /\ WellFormed(request.sig.v)
  ELSE FreshTimestamp /\ SecretConfigured /\ RightSignature

AcknowledgeEvent == IsObject /\ Member("eventType") = Str(ACKNOWLEDGE)

OrNull(a) == IF a.t = "undef" THEN Null ELSE a

AnsweredOk ==
  /\ response.kind = "response"
  /\ response.status = 200
  /\ response.body.k = "text"
  /\ ~response.body.json.isNull
  /\ response.body.json.ok
  /\ response.body.json.namespace = OrNull(Member("namespace"))
  /\ response.body.json.productId = OrNull(Member("productId"))

\* C5 (as claimed): a POST /verify request with eventType event-v1-acknowledge,
\* a non-empty eventId and valid headers is answered 200 with ok = true and
\* with namespace and productId equal to the request's values, null when
\* absent (final-version and HMAC-enforcing handlers).
C5_Original ==
  (pc = "done" /\ handler \in {"final", "hmac"} /\ PostVerify /\ AcknowledgeEvent
     /\ Member("eventId").t \notin {"undef", "null"} /\ Member("eventId") # Str(<<>>)
     /\ ValidHeaders)
    => AnsweredOk

\* C5 (amended): the same, for an eventId that is not empty after trimming
\* (a string of white space only is answered 400 as a missing eventId).
C5_Acknowledge ==
  (pc = "done" /\ handler \in {"final", "hmac"} /\ PostVerify /\ AcknowledgeEvent
     /\ Member("eventId").t \notin {"undef", "null"}
     /\ (Member("eventId").t = "str" => ~AllSpaces(Member("eventId").s))
     /\ ValidHeaders)
    => AnsweredOk

\* the final-version handler has answered 200 to an acknowledge event that
\* carries a namespace and no productId, echoing the one and null for the other
C5_Witness ==
  /\ Done("final") /\ PostVerify /\ AcknowledgeEvent /\ ValidHeaders
  /\ Member("eventId") = E1
  /\ Member("namespace") = N1
  /\ Member("productId") = Undefined
  /\ AnsweredOk
  /\ response.body.json.productId = Null

-----------------------------------------------------------------------------
\* absent, null or a string of white space only
MissingField(a) == a.t \in {"undef", "null"} \/ (a.t = "str" /\ AllSpaces(a.s))

RequiredOf(type) ==
  IF type = ACKNOWLEDGE THEN {"eventId"}
  ELSE IF type = PLAYER_ID_VERIFICATION THEN {"eventId", "playerId"}
  ELSE {"eventId", "playerId", "offerId", "namespace", "quantity"}

KnownAndComplete ==
  \E type \in {ACKNOWLEDGE, PLAYER_ID_VERIFICATION, FULFILL, CLAWBACK} :
    /\ Member("eventType") = Str(type)
    /\ \A key \in RequiredOf(type) : ~MissingField(Member(key))

\* C6: in the HMAC-enforcing handler a POST /verify request that has passed
\* timestamp and signature verification is answered 200 when its eventType is
\* one of the four known types and every field required for that type is
\* present (not absent, null or white space only), and 400 in every other case.
C6_FieldChecks ==
  (Done("hmac") /\ PostVerify /\ Parseable
     /\ FreshTimestamp /\ SecretConfigured /\ RightSignature)
    => response.status = IF KnownAndComplete THEN 200 ELSE 400

\* a verified fulfill event with all five fields, quantity 0, answered 200
C6_Witness ==
  /\ Done("hmac") /\ PostVerify /\ FreshTimestamp /\ SecretConfigured /\ RightSignature
  /\ Member("eventType") = Str(FULFILL)
  /\ Member("quantity") = Num(0)
  /\ KnownAndComplete
  /\ response.status = 200

-----------------------------------------------------------------------------
\* C7: in the HMAC-enforcing handler with no secret configured, a POST /verify
\* request with a parseable body, an X-Timestamp within the window and a
\* non-empty X-Signature is answered 500, and no POST /verify request is
\* answered 200.
C7_NoSecret ==
  (Done("hmac") /\ PostVerify /\ ~SecretConfigured)
    => /\ response.status # 200
       /\ (Parseable /\ FreshTimestamp /\ request.sig.present /\ request.sig.v # <<>>)
            => response.status = 500

\* a signed request has been answered 500 under a secret set to the empty text
C7_Witness ==
  /\ Done("hmac") /\ PostVerify /\ Parseable /\ FreshTimestamp
  /\ env = Hdr(<<>>)
  /\ request.sig.present /\ request.sig.v # <<>>
  /\ response.status = 500

-----------------------------------------------------------------------------
\* C8 (as claimed): in the HMAC-enforcing, echoing and final-version handlers
\* an OPTIONS request to any path is answered 204 with the CORS headers and
\* with no body handed to the Response.
C8_Original ==
  (pc = "done" /\ handler \in {"hmac", "echo", "final"} /\ request.method = "OPTIONS")
    => /\ response.kind = "response"
       /\ response.status = 204
       /\ response.headers.cors
       /\ response.body.k = "none"

-----------------------------------------------------------------------------
\* C9 (as claimed): in the final-version and HMAC-enforcing handlers every
\* response carries an X-Timestamp header, and X-Epic-Correlation-ID with the
\* request's value whenever the request carries a non-empty one.
C9_Original ==
  (pc = "done" /\ handler \in {"final", "hmac"})
    => /\ response.headers.ts.present
       /\ (request.corr.present /\ request.corr.v # <<>>)
            => response.headers.corr = request.corr

-----------------------------------------------------------------------------
\* the status and JSON body of a response
Answer(r) == [kind |-> r.kind, status |-> r.status, body |-> r.body]

\* what the handler answers to the request of a task handled alone, under the
\* task's clock reading and the configured secret
Alone(t) ==
  IF t.variant = "hmac"
  THEN {Answer(r) : r \in HmacFetch(t.req, env, t.clockRead)}
  ELSE {Answer(r) : r \in FinalFetch(t.req, t.clockRead)}

\* C10: under any interleaving of the requests in flight, each request gets
\* the status and body it would get if handled alone, given its own method,
\* path, headers and body, the clock reading and the configured secret
\* (HMAC-enforcing and final-version handlers).
C10_Independent ==
  \A i \in 1..MaxInFlight :
    tasks[i].pc = "done" => Answer(tasks[i].response) \in Alone(tasks[i])

\* two signed requests with different bodies were in flight together in the
\* HMAC-enforcing handler, the clock moved while they waited, and both are
\* answered: one 200, the other 400
C10_Witness ==
  /\ tasks[1].variant = "hmac" /\ tasks[2].variant = "hmac"
  /\ tasks[1].pc = "done" /\ tasks[2].pc = "done"
  /\ tasks[1].req.body # tasks[2].req.body
  /\ tasks[1].clockRead < now
  /\ tasks[1].response.status = 200
  /\ tasks[2].response.status = 400
  /\ tasks[2].response.body.json.message = <<"Missing ", "eventId">>

-----------------------------------------------------------------------------
\* the request body is JSON text
JsonBody == request.body.k = "json"

\* eventId is missing (no such member, or null) or empty after trimming
EventIdMissing ==
  \/ Member("eventId").t \in {"undef", "null"}
  \/ Member("eventId").t = "str" /\ AllSpaces(Member("eventId").s)

\* C11 (as claimed): in the final-version and shape-checking handlers every
\* POST /verify request with a parseable body whose eventId is missing or
\* empty after trimming is answered 400, never 401 or 428, whatever the
\* X-Signature header is.
C11_Original ==
  (pc = "done" /\ handler \in {"final", "shape"} /\ PostVerify /\ JsonBody
   /\ EventIdMissing)
    => response.kind = "response" /\ response.status = 400

-----------------------------------------------------------------------------
\* the X-Timestamp text parses as a date
ParsesAsDate == request.ts.present /\ request.ts.text = "iso"

\* the distance in ms between the X-Timestamp date and the server time
Distance ==
  IF request.ts.ms >= now THEN request.ts.ms - now ELSE now - request.ts.ms

StaleMessage == <<"Missing or invalid X-Timestamp">>

RejectedAsStale ==
  /\ response.kind = "response"
  /\ response.status = 400
  /\ response.body.json.message = StaleMessage

\* C12: in the HMAC-enforcing handler a POST /verify request with a parseable
\* body is rejected with 400 whenever its X-Timestamp does not parse as a date
\* or is more than 600000 ms away from the server time, in the past or in the
\* future; a timestamp at most 600000 ms away, exactly 600000 included, is not
\* rejected for its timestamp.
C12_SkewWindow ==
  (Done("hmac") /\ PostVerify /\ Parseable /\ request.ts.present)
    => IF ParsesAsDate /\ Distance <= 600000
       THEN ~RejectedAsStale
       ELSE RejectedAsStale

\* a correctly signed acknowledge event dated exactly 600000 ms before the
\* server time has been answered 200
C12_Witness ==
  /\ Done("hmac") /\ PostVerify /\ SecretConfigured
  /\ ParsesAsDate /\ now - request.ts.ms = 600000
  /\ RightSignature
  /\ request.body = AckBody
  /\ response.status = 200

-----------------------------------------------------------------------------
\* the text between its first and its last character that is no white space
Core(s) ==
  LET ink == {i \in 1..Len(s) : s[i] # " "} IN
  IF ink = {} THEN <<>>
  ELSE SubSeq(s, CHOOSE i \in ink : \A j \in ink : i <= j,
                 CHOOSE i \in ink : \A j \in ink : j <= i)

\* the comma-separated segments of a text, as a set: what lies between two
\* neighbouring cuts, the cuts being the commas and the two ends
Segments(t) ==
  LET cuts == {0, Len(t) + 1} \cup {i \in 1..Len(t) : t[i] = ","}
      neighbours == {ab \in cuts \X cuts :
                       ab[1] < ab[2] /\ \A c \in cuts : ~(ab[1] < c /\ c < ab[2])}
  IN {SubSeq(t, ab[1] + 1, ab[2] - 1) : ab \in neighbours}

SigText == request.sig.v

BothCalled == Called("malformedSignature") /\ Called("parseSignatureHeader")

\* non-blank, and every segment as it stands is key=value
StrictForm(s) ==
  /\ Core(s) # <<>>
  /\ \A p \in Segments(Core(s)) : KeyValue(p)

\* some segment is not blank, and every segment that is not blank is
\* key=value once the white space around it is removed
LenientForm(s) ==
  /\ \E p \in Segments(Core(s)) : Core(p) # <<>>
  /\ \A p \in Segments(Core(s)) : Core(p) # <<>> => KeyValue(Core(p))

\* no segment is empty or has white space at either end
PlainSegments(s) ==
  \A p \in Segments(Core(s)) : p # <<>> /\ Core(p) = p

\* C13 (as claimed): for every text s, malformedSignature(s) returns false
\* exactly when parseSignatureHeader(s).valid is true.
C13_Original ==
  BothCalled => (Result("malformedSignature") = FALSE <=> Result("parseSignatureHeader") = TRUE)

\* C13 (amended): malformedSignature(s) returns false exactly when s is not
\* blank and each comma-separated segment of the trimmed s, as it stands, has a
\* non-empty key before its first "=" and a non-empty value after it;
\* parseSignatureHeader(s).valid is true exactly when some segment is not
\* blank and each segment that is not blank has, once trimmed, a non-empty key
\* and a non-empty value; the two agree on every s none of whose segments is
\* empty or has white space at either end.
C13_Checkers ==
  /\ Called("malformedSignature")
       => (Result("malformedSignature") = FALSE <=> StrictForm(SigText))
  /\ Called("parseSignatureHeader")
       => (Result("parseSignatureHeader") = TRUE <=> LenientForm(SigText))
  /\ (BothCalled /\ PlainSegments(SigText))
       => (Result("malformedSignature") = FALSE <=> Result("parseSignatureHeader") = TRUE)

\* both checkers were applied to "k=k,": malformedSignature found it malformed
\* and parseSignatureHeader found it valid
C13_Witness ==
  /\ BothCalled
  /\ SigText = <<"k", "=", "k", ",">>
  /\ Result("malformedSignature") = TRUE
  /\ Result("parseSignatureHeader") = TRUE

====
